---- MODULE Spec2Model ----
(***************************************************************************)
(* cvlint: validation of a PDF resume against a battery of weighted        *)
(* criteria.  The model follows src/src/cvlint/main.py (the criterion      *)
(* predicates and the registry) and src/src/cvlint/cli.py (the check       *)
(* command: option validation, filtering, the evaluation loop, the score   *)
(* and the exit code).                                                     *)
(*                                                                         *)
(* A word is a sequence of one-character strings, so that the case         *)
(* conversions and the substring tests of the spelling check are computed  *)
(* character by character.                                                 *)
(***************************************************************************)
EXTENDS Integers, Sequences, FiniteSets, TLC

VARIABLES
    pc,                     \* position of the command or of the predicate call
    doc,                    \* the document found at PDF_PATH
    known,                  \* the tokens spell.known() recognises
    config,                 \* the configuration values the predicates read
    options,                \* the options given on the command line
    passing_score,          \* --passing-score
    criteria,               \* --criteria: the list of values given (or empty)
    all_criteria,           \* the criteria list being evaluated
    index,                  \* how many criteria the for loop has taken
    results,                \* the result records appended by the loop
    total_weight,
    passed_weight,
    score,                  \* the score as an exact fraction [num, den]
    passed_count,
    exit_code,              \* "0" or "1" once the command has ended
    message,                \* the error the command ended with, if any
    json_output,            \* the JSON documents the command has printed
    called,                 \* the predicate a predicate-level run calls
    returned,               \* what that call returned ("true", "false", "raise")
    actual_misspelled,      \* test_pdf_spell_check: the misspelling list
    capitalization_errors,  \* test_pdf_spell_check: the capitalization errors
    min_size,               \* test_pdf_font_sizes: the bounds of the call
    max_size

envVars == <<doc, known, config>>

cmdVars == <<options, passing_score, criteria, all_criteria, index, results,
             total_weight, passed_weight, score, passed_count, exit_code,
             message, json_output>>

callVars == <<called, returned, actual_misspelled, capitalization_errors,
              min_size, max_size>>

vars == <<pc, envVars, cmdVars, callVars>>

None == "None"

(***************************************************************************)
(* Characters and the str methods the predicates use.                      *)
(***************************************************************************)
LowerCase == <<"a","b","c","d","e","f","g","h","i","j","k","l","m",
               "n","o","p","q","r","s","t","u","v","w","x","y","z">>

UpperCase == <<"A","B","C","D","E","F","G","H","I","J","K","L","M",
               "N","O","P","Q","R","S","T","U","V","W","X","Y","Z">>

Digits == {"0","1","2","3","4","5","6","7","8","9"}

LowerSet == {LowerCase[i] : i \in 1..Len(LowerCase)}

UpperSet == {UpperCase[i] : i \in 1..Len(UpperCase)}

ToLower ==
    [c \in UpperSet |->
        LowerCase[CHOOSE i \in 1..Len(UpperCase) : UpperCase[i] = c]]

ToUpper ==
    [c \in LowerSet |->
        UpperCase[CHOOSE i \in 1..Len(LowerCase) : LowerCase[i] = c]]

IsLowerCh(c) == c \in LowerSet

IsUpperCh(c) == c \in UpperSet

LowerCh(c) == IF IsUpperCh(c) THEN ToLower[c] ELSE c

UpperCh(c) == IF IsLowerCh(c) THEN ToUpper[c] ELSE c

\* str.lower()
lower(w) == [i \in 1..Len(w) |-> LowerCh(w[i])]

\* str.islower(): at least one cased character, and no uppercase one
islower(w) ==
    /\ \E i \in 1..Len(w) : IsLowerCh(w[i])
    /\ \A i \in 1..Len(w) : ~IsUpperCh(w[i])

\* str.capitalize(): first character upper case, the rest lower case
capitalize(w) ==
    [i \in 1..Len(w) |-> IF i = 1 THEN UpperCh(w[i]) ELSE LowerCh(w[i])]

\* sub in w
contains(w, sub) ==
    \E i \in 0..(Len(w) - Len(sub)) :
        \A k \in 1..Len(sub) : w[i + k] = sub[k]

startswith(w, c) == Len(w) > 0 /\ w[1] = c

endswith(w, c) == Len(w) > 0 /\ w[Len(w)] = c

RECURSIVE Concat(_)
\* full_text += page.extract_text(), page after page
Concat(texts) ==
    IF texts = <<>> THEN <<>> ELSE Head(texts) \o Concat(Tail(texts))

(***************************************************************************)
(* re.findall(r"\b[a-zA-Z]+\b", full_text)                                 *)
(***************************************************************************)
IsLetter(c) == IsLowerCh(c) \/ IsUpperCh(c)

\* \w of the regular expression
IsWordChar(c) == IsLetter(c) \/ c \in Digits \/ c = "_"

\* the last index of the run of letters that starts at i
RunEnd(text, i) ==
    CHOOSE e \in i..Len(text) :
        /\ \A k \in i..e : IsLetter(text[k])
        /\ (e = Len(text) \/ ~IsLetter(text[e + 1]))

RECURSIVE FindallFrom(_, _)
FindallFrom(text, i) ==
    IF i > Len(text) THEN <<>>
    ELSE IF IsLetter(text[i]) /\ (i = 1 \/ ~IsWordChar(text[i - 1]))
         THEN LET e == RunEnd(text, i)
              IN  IF e = Len(text) \/ ~IsWordChar(text[e + 1])
                  THEN <<SubSeq(text, i, e)>> \o FindallFrom(text, e + 1)
                  ELSE FindallFrom(text, i + 1)
         ELSE FindallFrom(text, i + 1)

findall(text) == FindallFrom(text, 1)

(***************************************************************************)
(* Outcomes of the test functions and of what they call.                   *)
(***************************************************************************)
Ok == [exc |-> None, msg |-> None]

Raise(type, msg) == [exc |-> type, msg |-> msg]

\* what PdfReader(PDF_PATH), fitz.open(PDF_PATH) and extract_pages(PDF_PATH)
\* raise on a document they cannot open or decode (None: they succeed)
OpenError(d) ==
    IF ~d.exists THEN "No such file or directory"
    ELSE IF ~d.is_file THEN "Is a directory"
    ELSE IF ~d.readable THEN "Stream has ended unexpectedly"
    ELSE None

(***************************************************************************)
(* The module-level configuration of main.py.                              *)
(***************************************************************************)
MAX_PAGES == 1
MIN_FONT == 8
MAX_FONT == 21
MAX_FILE_SIZE_KB == 500

DefaultConfig ==
    [MAX_PAGES |-> MAX_PAGES, MIN_FONT |-> MIN_FONT, MAX_FONT |-> MAX_FONT,
     ENFORCE_HTTPS |-> TRUE, MAX_FILE_SIZE_KB |-> MAX_FILE_SIZE_KB,
     NO_IMAGES |-> TRUE, BACKGROUND_WHITE |-> TRUE,
     GRAYSCALE_COLORS |-> TRUE, CUSTOM_WORDS |-> <<>>]

(***************************************************************************)
(* The test functions.                                                     *)
(***************************************************************************)
test_pdf_exists(d) ==
    IF d.is_file THEN Ok ELSE Raise("AssertionError", "CV PDF not found")

test_pdf_page_count(d) ==
    IF OpenError(d) # None THEN Raise("Exception", OpenError(d))
    ELSE IF Len(d.pages) <= 1 THEN Ok
    ELSE Raise("AssertionError", "CV is too many pages (should be <=1 page)")

\* test_pdf_file_size with the size left in bytes
test_pdf_file_size_bytes(d, cfg) ==
    IF ~d.exists THEN Raise("Exception", "No such file or directory")
    ELSE IF d.size_kb * 1024 <= cfg.MAX_FILE_SIZE_KB THEN Ok
    ELSE Raise("AssertionError", "CV file size is too large")

test_pdf_file_size(d, cfg) ==
    IF ~d.exists THEN Raise("Exception", "No such file or directory")
    ELSE IF d.size_kb <= cfg.MAX_FILE_SIZE_KB THEN Ok
    ELSE Raise("AssertionError", "CV file size is too large")

\* FontErrors with the bounds made exclusive
FontErrors_exclusive(d, min, max) ==
    LET bad(p) == SelectSeq(d.pages[p].glyphs, LAMBDA font_size :
                                font_size <= min \/ font_size >= max)
        all == [p \in 1..Len(d.pages) |->
                   [page |-> p, too_small |-> TRUE, too_big |-> TRUE]]
    IN  SelectSeq(all, LAMBDA e : bad(e.page) # <<>>)

\* the errors list of test_pdf_font_sizes: one entry for each page whose text
\* holds a glyph with font_size < min_size or font_size > max_size
FontErrors(d, min, max) ==
    LET bad_sizes(p) ==
            SelectSeq(d.pages[p].glyphs, LAMBDA font_size :
                          font_size < min \/ font_size > max)
        entry(p) ==
            [page |-> p,
             too_small |-> \E k \in 1..Len(bad_sizes(p)) : bad_sizes(p)[k] < min,
             too_big |-> \E k \in 1..Len(bad_sizes(p)) : bad_sizes(p)[k] > max]
        all == [p \in 1..Len(d.pages) |-> entry(p)]
    IN  SelectSeq(all, LAMBDA e : bad_sizes(e.page) # <<>>)

test_pdf_font_sizes(d, min, max) ==
    IF OpenError(d) # None THEN Raise("Exception", OpenError(d))
    ELSE IF FontErrors(d, min, max) # <<>>
         THEN Raise("AssertionError", "Text with font size out of range")
         ELSE Ok

\* link.startswith("https://")
startswith_https(link) == link.scheme = "https"

\* the URIs of all link annotations, page after page
RECURSIVE AllLinks(_)
AllLinks(pages) ==
    IF pages = <<>> THEN <<>> ELSE Head(pages).links \o AllLinks(Tail(pages))

test_pdf_links_https(d, cfg) ==
    IF ~cfg.ENFORCE_HTTPS THEN Raise("Skipped", "HTTPS enforcement is disabled")
    ELSE IF OpenError(d) # None THEN Raise("Exception", OpenError(d))
    ELSE IF \A k \in 1..Len(AllLinks(d.pages)) :
                startswith_https(AllLinks(d.pages)[k])
         THEN Ok
         ELSE Raise("AssertionError", "Link does not use HTTPS")

test_pdf_no_images(d, cfg) ==
    IF ~cfg.NO_IMAGES THEN Raise("Skipped", "Image checking is disabled")
    ELSE IF OpenError(d) # None THEN Raise("Exception", OpenError(d))
    ELSE IF \E p \in 1..Len(d.pages) : d.pages[p].image
         THEN Raise("AssertionError", "Found image, but NO_IMAGES is True")
         ELSE Ok

White == <<255, 255, 255>>

test_pdf_background_white(d, cfg) ==
    IF ~cfg.BACKGROUND_WHITE
    THEN Raise("Skipped", "Background color checking is disabled")
    ELSE IF OpenError(d) # None THEN Raise("Exception", OpenError(d))
    ELSE IF Len(d.pages) = 0 THEN Raise("Exception", "page 0 not in document")
    ELSE IF d.pages[1].pixels[1] = White THEN Ok
    ELSE Raise("AssertionError", "Expected white background")

Max3(rgb) ==
    CHOOSE m \in {rgb[1], rgb[2], rgb[3]} :
        \A x \in {rgb[1], rgb[2], rgb[3]} : x <= m

Min3(rgb) ==
    CHOOSE m \in {rgb[1], rgb[2], rgb[3]} :
        \A x \in {rgb[1], rgb[2], rgb[3]} : m <= x

\* the tolerance of the saturation check is 0.01 = TolNum / TolDen
TolNum == 1
TolDen == 100

\* rgb_to_hsv(pixel)[1] > tolerance, the saturation being
\* (max - min) / max, and 0 when max = min
Saturated(rgb) ==
    /\ Max3(rgb) # Min3(rgb)
    /\ TolDen * (Max3(rgb) - Min3(rgb)) > TolNum * Max3(rgb)

test_pdf_all_pixels_no_saturation(d, cfg) ==
    IF ~cfg.GRAYSCALE_COLORS
    THEN Raise("Skipped", "Grayscale color checking is disabled")
    ELSE IF OpenError(d) # None THEN Raise("Exception", OpenError(d))
    ELSE IF \E p \in 1..Len(d.pages) :
                \E i \in 1..Len(d.pages[p].pixels) :
                    Saturated(d.pages[p].pixels[i])
         THEN Raise("AssertionError", "Pixel with saturation found")
         ELSE Ok

(***************************************************************************)
(* test_pdf_spell_check                                                    *)
(***************************************************************************)
\* allowed_words without the capitalized form of the all-lowercase words
allowed_words_exact_only(custom_words) ==
    {custom_words[k] : k \in 1..Len(custom_words)}

\* the allowed word variations built from CUSTOM_WORDS
allowed_words(custom_words) ==
    UNION {IF islower(custom_words[k])
           THEN {custom_words[k], capitalize(custom_words[k])}
           ELSE {custom_words[k]} : k \in 1..Len(custom_words)}

TechTerms == {<<"j","s">>, <<"s","q","l">>, <<"x","m","l">>,
              <<"j","s","o","n">>}

\* the positions of the custom words that make `word` a capitalization
\* error: same letters, another case, and the custom word is not all lowercase
CapitalizationMatches(word, custom_words) ==
    {k \in 1..Len(custom_words) :
        /\ lower(word) = lower(custom_words[k])
        /\ word # custom_words[k]
        /\ ~islower(custom_words[k])}

\* one iteration of "for word in original_words" on the two lists
SpellStep(acc, word, custom_words, oracle) ==
    IF Len(word) < 3 THEN acc
    ELSE IF word \in allowed_words(custom_words) \/ word \in oracle THEN acc
    ELSE LET m == CapitalizationMatches(word, custom_words)
         IN  IF m # {}
             THEN LET first == CHOOSE k \in m : \A j \in m : k <= j
                  IN  [acc EXCEPT !.capitalization_errors =
                           Append(@, [found |-> word,
                                      should |-> custom_words[first]])]
             ELSE IF startswith(lower(word), ".") \/ endswith(lower(word), ".")
                  THEN acc
             ELSE IF \E tech \in TechTerms : contains(lower(word), tech)
                  THEN acc
             ELSE [acc EXCEPT !.actual_misspelled = Append(@, word)]

RECURSIVE SpellLoop(_, _, _, _)
SpellLoop(acc, words, custom_words, oracle) ==
    IF words = <<>> THEN acc
    ELSE SpellLoop(SpellStep(acc, Head(words), custom_words, oracle),
                   Tail(words), custom_words, oracle)

\* the list left as it is, duplicates included
fromkeys_keep_duplicates(words) == words

RECURSIVE fromkeys(_)
\* list(dict.fromkeys(words)): the first occurrence of each word, in order
fromkeys(words) ==
    IF words = <<>> THEN <<>>
    ELSE LET init == fromkeys(SubSeq(words, 1, Len(words) - 1))
             last == words[Len(words)]
         IN  IF \E k \in 1..Len(init) : init[k] = last
             THEN init ELSE Append(init, last)

\* the two lists test_pdf_spell_check ends with, on a readable document
SpellLists(d, cfg, oracle) ==
    LET full_text == Concat([p \in 1..Len(d.pages) |-> d.pages[p].text])
        original_words == findall(full_text)
        acc == SpellLoop([actual_misspelled |-> <<>>,
                          capitalization_errors |-> <<>>],
                         original_words, cfg.CUSTOM_WORDS, oracle)
    IN  [acc EXCEPT !.actual_misspelled = fromkeys(@)]

test_pdf_spell_check(d, cfg, oracle) ==
    IF OpenError(d) # None THEN Raise("Exception", OpenError(d))
    ELSE LET l == SpellLists(d, cfg, oracle)
         IN  IF l.actual_misspelled = <<>> /\ l.capitalization_errors = <<>>
             THEN Ok
             ELSE Raise("AssertionError",
                        "Misspelled words or capitalization errors")

(***************************************************************************)
(* test_pdf_structure and test_pdf_not_corrupted                           *)
(***************************************************************************)
Whitespace == {" ", "\n", "\t"}

\* metadata.get("/Author") of a document that has no such field
NoValue == <<None>>

\* len(text.strip()) > 0
NonBlank(text) == \E i \in 1..Len(text) : text[i] \notin Whitespace

test_pdf_structure(d) ==
    IF OpenError(d) # None THEN Raise("Exception", OpenError(d))
    ELSE IF ~d.metadata.present
         THEN Raise("AssertionError", "PDF should have metadata")
    ELSE IF d.metadata.Author = NoValue \/ ~NonBlank(d.metadata.Author)
         THEN Raise("AssertionError",
                    "PDF should have a valid Author metadata field")
    ELSE IF d.metadata.Title = NoValue \/ ~NonBlank(d.metadata.Title)
         THEN Raise("AssertionError",
                    "PDF should have a valid Title metadata field")
    ELSE IF \E p \in 1..Len(d.pages) : ~NonBlank(d.pages[p].text)
         THEN Raise("AssertionError", "Page should contain readable text")
         ELSE Ok

test_pdf_not_corrupted(d) ==
    IF OpenError(d) # None
    THEN Raise("AssertionError", "PDF appears to be corrupted")
    ELSE Ok

(***************************************************************************)
(* The wrappers: a test function that returns gives True, one of the       *)
(* exceptions the wrapper catches gives False, any other exception leaves  *)
(* the wrapper.                                                            *)
(***************************************************************************)
\* `value` is read only when `raised` is FALSE
Returns(b) == [raised |-> FALSE, value |-> b, msg |-> None]

Raises(msg) == [raised |-> TRUE, value |-> FALSE, msg |-> msg]

Wrap(outcome, caught) ==
    IF outcome.exc = None THEN Returns(TRUE)
    ELSE IF outcome.exc \in caught THEN Returns(FALSE)
    ELSE Raises(outcome.msg)

test_pdf_exists_wrapper(d) ==
    Wrap(test_pdf_exists(d), {"AssertionError"})

test_pdf_page_count_wrapper(d) ==
    Wrap(test_pdf_page_count(d), {"AssertionError"})

test_pdf_file_size_wrapper(d, cfg) ==
    Wrap(test_pdf_file_size(d, cfg), {"AssertionError"})

\* test_pdf_font_sizes() is called without arguments: its bounds are the
\* defaults, MIN_FONT and MAX_FONT as they were when the function was defined
test_pdf_font_sizes_wrapper(d) ==
    Wrap(test_pdf_font_sizes(d, MIN_FONT, MAX_FONT), {"AssertionError"})

test_pdf_links_https_wrapper(d, cfg) ==
    Wrap(test_pdf_links_https(d, cfg), {"AssertionError", "Skipped"})

test_pdf_no_images_wrapper(d, cfg) ==
    Wrap(test_pdf_no_images(d, cfg), {"AssertionError", "Skipped"})

test_pdf_background_white_wrapper(d, cfg) ==
    Wrap(test_pdf_background_white(d, cfg), {"AssertionError", "Skipped"})

test_pdf_all_pixels_no_saturation_wrapper(d, cfg) ==
    Wrap(test_pdf_all_pixels_no_saturation(d, cfg),
         {"AssertionError", "Skipped"})

test_pdf_spell_check_wrapper(d, cfg, oracle) ==
    Wrap(test_pdf_spell_check(d, cfg, oracle), {"AssertionError"})

test_pdf_structure_wrapper(d) ==
    Wrap(test_pdf_structure(d), {"AssertionError"})

test_pdf_not_corrupted_wrapper(d) ==
    Wrap(test_pdf_not_corrupted(d), {"AssertionError"})

(***************************************************************************)
(* The criteria list.                                                      *)
(***************************************************************************)
create_criteria_list ==
    << [name |-> "PDF File Exists", weight |-> 10,
        description |->
            "Validates that the CV PDF file exists at the specified path"],
       [name |-> "Single Page Limit", weight |-> 15,
        description |-> "Ensures the CV is exactly one page or less"],
       [name |-> "File Size Constraint", weight |-> 8,
        description |->
            "Validates that the PDF file size is within 500KB limit"],
       [name |-> "Font Size Range", weight |-> 12,
        description |-> "Ensures all fonts are between 8pt and 21pt"],
       [name |-> "HTTPS Links Only", weight |-> 7,
        description |->
            "Validates that all links in the PDF use HTTPS protocol"],
       [name |-> "No Embedded Images", weight |-> 5,
        description |-> "Ensures the PDF contains no embedded images"],
       [name |-> "White Background", weight |-> 6,
        description |-> "Validates that the PDF has a white background"],
       [name |-> "Grayscale Colors Only", weight |-> 8,
        description |->
            "Ensures all colors in the PDF are grayscale (no saturation)"],
       [name |-> "Spell Check and Capitalization", weight |-> 20,
        description |->
            "Validates spelling and proper capitalization of technical terms"],
       [name |-> "PDF Structure and Metadata", weight |-> 9,
        description |->
            "Validates PDF metadata (author, title) and text readability"],
       [name |-> "PDF Integrity", weight |-> 10,
        description |->
            "Ensures the PDF is not corrupted and can be properly read"] >>

CriterionNames ==
    {create_criteria_list[k].name : k \in 1..Len(create_criteria_list)}

\* the check_func of the criterion called `name`
check_func(name, d, cfg, oracle) ==
    CASE name = "PDF File Exists" -> test_pdf_exists_wrapper(d)
      [] name = "Single Page Limit" -> test_pdf_page_count_wrapper(d)
      [] name = "File Size Constraint" -> test_pdf_file_size_wrapper(d, cfg)
      [] name = "Font Size Range" -> test_pdf_font_sizes_wrapper(d)
      [] name = "HTTPS Links Only" -> test_pdf_links_https_wrapper(d, cfg)
      [] name = "No Embedded Images" -> test_pdf_no_images_wrapper(d, cfg)
      [] name = "White Background" ->
             test_pdf_background_white_wrapper(d, cfg)
      [] name = "Grayscale Colors Only" ->
             test_pdf_all_pixels_no_saturation_wrapper(d, cfg)
      [] name = "Spell Check and Capitalization" ->
             test_pdf_spell_check_wrapper(d, cfg, oracle)
      [] name = "PDF Structure and Metadata" -> test_pdf_structure_wrapper(d)
      [] name = "PDF Integrity" -> test_pdf_not_corrupted_wrapper(d)

(***************************************************************************)
(* Documents.  A document is what the libraries report of the file at      *)
(* PDF_PATH: whether it exists, is a regular file and can be decoded, its  *)
(* size, its metadata and its pages.  A page holds its extracted text, the *)
(* font sizes of the glyphs of its text boxes, the URIs of its link        *)
(* annotations, whether it embeds an image, and its rendered pixels in     *)
(* row-major order.                                                        *)
(***************************************************************************)
W_the == <<"t","h","e">>
W_teh == <<"t","e","h">>
W_cv == <<"c","v">>
W_vim == <<"v","i","m">>
W_Vim == <<"V","i","m">>
W_VIM == <<"V","I","M">>

Black == <<0, 0, 0>>
Red == <<255, 0, 0>>

ValidPage ==
    [text |-> W_the, glyphs |-> <<12>>, links |-> <<>>, image |-> FALSE,
     pixels |-> <<White, Black>>]

\* the valid_pdf fixture: one page, 12pt, author and title set
ValidDoc ==
    [exists |-> TRUE, is_file |-> TRUE, readable |-> TRUE, size_kb |-> 2,
     metadata |-> [present |-> TRUE,
                   Author |-> <<"J","o","h","n">>,
                   Title |-> <<"C","V">>],
     pages |-> <<ValidPage>>]

SeqsUpTo(S, n) == UNION {[1..k -> S] : k \in 0..n}

Range(f) == {f[k] : k \in DOMAIN f}

RECURSIVE JoinWords(_)
\* the words of a line of text, separated by one space
JoinWords(words) ==
    IF words = <<>> THEN <<>>
    ELSE IF Len(words) = 1 THEN Head(words)
    ELSE Head(words) \o <<" ">> \o JoinWords(Tail(words))

\* the result of a wrapper before it is called
NotCalled == [raised |-> FALSE, value |-> FALSE, msg |-> None]

\* the variables of the check command, while no command runs
NoCommand ==
    /\ options = {}
    /\ passing_score = 80
    /\ criteria = <<>>
    /\ all_criteria = <<>>
    /\ index = 0
    /\ results = <<>>
    /\ total_weight = 0
    /\ passed_weight = 0
    /\ score = [num |-> 0, den |-> 1]
    /\ passed_count = 0
    /\ exit_code = None
    /\ message = None
    /\ json_output = <<>>

(***************************************************************************)
(* Calls of test_pdf_spell_check on the text of a one-page document.       *)
(***************************************************************************)
MaxCustomWords == 2
MaxTokens == 2

SpellPool == {W_vim, W_Vim, W_VIM, W_teh, W_cv}

SpellInit ==
    /\ \E cw \in SeqsUpTo(SpellPool, MaxCustomWords) :
           config = [DefaultConfig EXCEPT !.CUSTOM_WORDS = cw]
    /\ \E words \in SeqsUpTo(SpellPool, MaxTokens) :
           /\ doc = [ValidDoc EXCEPT
                         !.pages = <<[ValidPage EXCEPT
                                          !.text = JoinWords(words)]>>]
           /\ known \in SUBSET Range(words)
    /\ pc = "call"
    /\ called = "test_pdf_spell_check"
    /\ returned = NotCalled
    /\ actual_misspelled = <<>>
    /\ capitalization_errors = <<>>
    /\ min_size = MIN_FONT
    /\ max_size = MAX_FONT
    /\ NoCommand

\* test_pdf_spell_check_wrapper(), with the two lists the check ended with
CallSpellCheck ==
    /\ pc = "call"
    /\ called = "test_pdf_spell_check"
    /\ returned' = test_pdf_spell_check_wrapper(doc, config, known)
    /\ LET l == IF OpenError(doc) = None
                THEN SpellLists(doc, config, known)
                ELSE [actual_misspelled |-> <<>>,
                      capitalization_errors |-> <<>>]
       IN  /\ actual_misspelled' = l.actual_misspelled
           /\ capitalization_errors' = l.capitalization_errors
    /\ pc' = "done"
    /\ UNCHANGED <<envVars, cmdVars, called, min_size, max_size>>

SpecSpell == SpellInit /\ [][CallSpellCheck]_vars

\* the tokens of the document's text
original_words ==
    findall(Concat([p \in 1..Len(doc.pages) |-> doc.pages[p].text]))

Count(seq, P(_)) == Cardinality({k \in 1..Len(seq) : P(seq[k])})

SpellDone == pc = "done" /\ called = "test_pdf_spell_check"

(***************************************************************************)
(* Claims about the spelling check.                                        *)
(***************************************************************************)
\* the custom words with a mandated capitalization that `word` matches
\* case-insensitively but not exactly
RigidMismatches(word) ==
    {k \in 1..Len(config.CUSTOM_WORDS) :
        /\ \E i \in 1..Len(config.CUSTOM_WORDS[k]) :
               IsUpperCh(config.CUSTOM_WORDS[k][i])
        /\ lower(word) = lower(config.CUSTOM_WORDS[k])
        /\ word # config.CUSTOM_WORDS[k]}

CapErrorsFor(word) ==
    Count(capitalization_errors, LAMBDA e : e.found = word)

OccurrencesOf(word) == Count(original_words, LAMBDA w : w = word)

\* C7 (as claimed): every token of length >= 3 that equals a custom word
\* containing an uppercase letter case-insensitively but not exactly yields
\* one capitalization error per occurrence and no misspelling entry, whatever
\* the oracle answers for it.
C7_CaseRigidOverride ==
    SpellDone =>
        \A word \in Range(original_words) :
            (Len(word) >= 3 /\ RigidMismatches(word) # {}) =>
                /\ CapErrorsFor(word) = OccurrencesOf(word)
                /\ word \notin Range(actual_misspelled)

\* C8: a token equal to an all-lowercase custom word, or to its capitalized
\* form, never appears in the misspelling list nor in a capitalization error,
\* whatever the oracle answers and whatever the other custom words are.
C8_CaseFlexibleAccepted ==
    SpellDone =>
        \A k \in 1..Len(config.CUSTOM_WORDS) :
            islower(config.CUSTOM_WORDS[k]) =>
                \A word \in {config.CUSTOM_WORDS[k],
                             capitalize(config.CUSTOM_WORDS[k])} :
                    /\ word \notin Range(actual_misspelled)
                    /\ CapErrorsFor(word) = 0

\* C8 witness: the capitalized form of an all-lowercase custom word occurs in
\* the text, the oracle does not know it, and another custom word mandates a
\* different capitalization of the same letters.
C8_Witness ==
    /\ SpellDone
    /\ \E k \in 1..Len(config.CUSTOM_WORDS) :
           /\ islower(config.CUSTOM_WORDS[k])
           /\ Len(config.CUSTOM_WORDS[k]) >= 3
           /\ capitalize(config.CUSTOM_WORDS[k]) \in Range(original_words)
           /\ capitalize(config.CUSTOM_WORDS[k]) \notin known
           /\ RigidMismatches(capitalize(config.CUSTOM_WORDS[k])) # {}
    /\ returned.value

(***************************************************************************)
(* Calls of test_pdf_font_sizes with explicit bounds, on documents of up   *)
(* to MaxFontPages pages holding up to MaxGlyphs glyphs in all.            *)
(***************************************************************************)
MaxFontPages == 2
MaxGlyphs == 2

FontSizes == {6, 8, 12, 21, 24}

FontInit ==
    /\ \E n \in 0..MaxFontPages :
         \E placed \in SeqsUpTo((1..n) \X FontSizes, MaxGlyphs) :
           doc = [ValidDoc EXCEPT !.pages =
                     [p \in 1..n |->
                         [ValidPage EXCEPT !.glyphs =
                             LET on_page ==
                                     SelectSeq(placed, LAMBDA g : g[1] = p)
                             IN  [k \in 1..Len(on_page) |-> on_page[k][2]]]]]
    /\ min_size \in {6, MIN_FONT}
    /\ max_size \in {MAX_FONT, 24}
    /\ pc = "call"
    /\ called = "test_pdf_font_sizes"
    /\ returned = Ok
    /\ config = DefaultConfig
    /\ known = {W_the}
    /\ actual_misspelled = <<>>
    /\ capitalization_errors = <<>>
    /\ NoCommand

\* test_pdf_font_sizes(min_size=..., max_size=...)
CallFontSizes ==
    /\ pc = "call"
    /\ called = "test_pdf_font_sizes"
    /\ returned' = test_pdf_font_sizes(doc, min_size, max_size)
    /\ pc' = "done"
    /\ UNCHANGED <<envVars, cmdVars, called, actual_misspelled,
                   capitalization_errors, min_size, max_size>>

SpecFont == FontInit /\ [][CallFontSizes]_vars

FontDone == pc = "done" /\ called = "test_pdf_font_sizes"

\* the font sizes of all glyphs of the document
GlyphSizes(d) ==
    UNION {Range(d.pages[p].glyphs) : p \in 1..Len(d.pages)}

Reverse(seq) == [k \in 1..Len(seq) |-> seq[Len(seq) + 1 - k]]

\* the document read in another order: pages last to first, and the glyphs
\* of each page last to first
Reordered(d) ==
    [d EXCEPT !.pages =
        Reverse([p \in 1..Len(d.pages) |->
                    [d.pages[p] EXCEPT !.glyphs = Reverse(@)]])]

\* C9: test_pdf_font_sizes passes iff every glyph of every page has
\* min_size <= size <= max_size (bounds inclusive, no text passes), and
\* reading the pages and glyphs in another order gives the same result.
C9_FontSizeInclusiveBounds ==
    FontDone =>
        /\ (returned.exc = None) <=>
              \A size \in GlyphSizes(doc) :
                  min_size <= size /\ size <= max_size
        /\ test_pdf_font_sizes(Reordered(doc), min_size, max_size).exc
               = returned.exc

\* C9 witness: a passing document with a glyph sized exactly min, one sized
\* exactly max, and a page without text.
C9_Witness ==
    /\ FontDone
    /\ returned.exc = None
    /\ min_size \in GlyphSizes(doc)
    /\ max_size \in GlyphSizes(doc)
    /\ \E p \in 1..Len(doc.pages) : doc.pages[p].glyphs = <<>>

(***************************************************************************)
(* Runs.  A run is the valid one-page document under the default options,  *)
(* changed in at most MaxVariations ways: a defect of the document (the    *)
(* fixtures of the test suite) or an option of the command line.           *)
(***************************************************************************)
MaxVariations == 2

Defects ==
    {"missing", "directory", "corrupted", "multi_page", "two_pages", "large",
     "small_font", "large_font", "http_link", "image", "colored_background",
     "saturated_colors", "spelling_errors", "no_metadata"}

Options ==
    {"--max-pages=2", "--min-font=1", "--min-font=21", "--no-https",
     "--allow-images", "--allow-colors", "--no-white-bg",
     "--passing-score=150", "--passing-score=-5", "--passing-score=0",
     "--passing-score=100", "--output=json", "--output=summary"}

\* variations of which a run has at most one: the two page counts, and the
\* values of one option
Exclusive ==
    {{"multi_page", "two_pages"},
     {"--min-font=1", "--min-font=21"},
     {"--passing-score=150", "--passing-score=-5", "--passing-score=0",
      "--passing-score=100"},
     {"--output=json", "--output=summary"}}

Compatible(v) == \A group \in Exclusive : Cardinality(group \cap v) <= 1

RECURSIVE SubsetsUpTo(_, _)
SubsetsUpTo(S, n) ==
    IF n = 0 THEN {{}}
    ELSE LET smaller == SubsetsUpTo(S, n - 1)
         IN  smaller \cup {T \cup {x} : T \in smaller, x \in S}

Variations(n) ==
    {v \in SubsetsUpTo(Defects \cup Options, n) : Compatible(v)}

\* the document of a run
DocOf(v) ==
    LET page ==
            [text |-> IF "spelling_errors" \in v THEN W_teh ELSE W_the,
             glyphs |-> <<12>>
                        \o (IF "small_font" \in v THEN <<6>> ELSE <<>>)
                        \o (IF "large_font" \in v THEN <<24>> ELSE <<>>),
             links |-> IF "http_link" \in v
                       THEN <<[scheme |-> "http"]>> ELSE <<>>,
             image |-> "image" \in v,
             pixels |-> <<IF "colored_background" \in v THEN Red ELSE White,
                          IF "saturated_colors" \in v THEN Red ELSE Black>>]
        n == IF "multi_page" \in v THEN 3
             ELSE IF "two_pages" \in v THEN 2 ELSE 1
    IN  [exists |-> "missing" \notin v,
         is_file |-> "missing" \notin v /\ "directory" \notin v,
         readable |-> {"missing", "directory", "corrupted"} \cap v = {},
         size_kb |-> IF "large" \in v THEN 600 ELSE 2,
         metadata |-> IF "no_metadata" \in v
                      THEN [present |-> TRUE, Author |-> <<>>, Title |-> <<>>]
                      ELSE ValidDoc.metadata,
         pages |-> [p \in 1..n |-> page]]

\* the configuration built from the options of the command line
ConfigOf(v) ==
    [MAX_PAGES |-> IF "--max-pages=2" \in v THEN 2 ELSE MAX_PAGES,
     MAX_FILE_SIZE_KB |-> MAX_FILE_SIZE_KB,
     MIN_FONT |-> IF "--min-font=1" \in v THEN 1
                  ELSE IF "--min-font=21" \in v THEN 21 ELSE MIN_FONT,
     MAX_FONT |-> MAX_FONT,
     ENFORCE_HTTPS |-> ~("--no-https" \in v),
     NO_IMAGES |-> ~("--allow-images" \in v),
     BACKGROUND_WHITE |-> ~("--no-white-bg" \in v),
     GRAYSCALE_COLORS |-> ~("--allow-colors" \in v),
     CUSTOM_WORDS |-> <<>>]

PassingScoreOf(v) ==
    IF "--passing-score=150" \in v THEN 150
    ELSE IF "--passing-score=-5" \in v THEN -5
    ELSE IF "--passing-score=0" \in v THEN 0
    ELSE IF "--passing-score=100" \in v THEN 100
    ELSE 80

\* the invariant of a Configuration, tested when it is constructed with
\* min font equal to max font let through
ValidConfiguration_allows_equal(cfg) ==
    /\ cfg.MAX_PAGES >= 1
    /\ cfg.MAX_FILE_SIZE_KB > 0
    /\ cfg.MIN_FONT <= cfg.MAX_FONT

\* the invariant of a Configuration, tested when it is constructed
\* (ValidationConfig: its code is not part of the sources at hand)
ValidConfiguration(cfg) ==
    /\ cfg.MAX_PAGES >= 1
    /\ cfg.MAX_FILE_SIZE_KB > 0
    /\ cfg.MIN_FONT < cfg.MAX_FONT

\* the words the spelling oracle knows in a run
Dictionary == {W_the}

(***************************************************************************)
(* Calls of the check_func of one criterion.                               *)
(***************************************************************************)
PredInit ==
    /\ \E v \in Variations(MaxVariations) :
           /\ doc = DocOf(v)
           /\ config = ConfigOf(v)
    /\ called \in CriterionNames
    /\ known = Dictionary
    /\ pc = "call"
    /\ returned = NotCalled
    /\ actual_misspelled = <<>>
    /\ capitalization_errors = <<>>
    /\ min_size = MIN_FONT
    /\ max_size = MAX_FONT
    /\ NoCommand

\* a call after which the spelling oracle has learnt the words it was shown
CallCheckFunc_learns ==
    /\ pc = "call"
    /\ called \in CriterionNames
    /\ returned' = check_func(called, doc, config, known)
    /\ known' = known \cup UNION {Range(findall(doc.pages[p].text)) :
                                     p \in 1..Len(doc.pages)}
    /\ pc' = "done"
    /\ UNCHANGED <<doc, config, cmdVars, called, actual_misspelled,
                   capitalization_errors, min_size, max_size>>

\* criterion.check_func(): the document, the configuration and the oracle
\* are read, never written
CallCheckFunc ==
    /\ pc = "call"
    /\ called \in CriterionNames
    /\ returned' = check_func(called, doc, config, known)
    /\ pc' = "done"
    /\ UNCHANGED <<envVars, cmdVars, called, actual_misspelled,
                   capitalization_errors, min_size, max_size>>

SpecPred == PredInit /\ [][CallCheckFunc]_vars

PredDone == pc = "done" /\ called \in CriterionNames

\* C4 (as claimed): every criterion predicate returns a boolean for every
\* document; no exception leaves a predicate.
C4_PredicatesNeverRaise ==
    PredDone => ~returned.raised

\* the configuration value that enables a toggled criterion
Toggle(name) ==
    CASE name = "HTTPS Links Only" -> config.ENFORCE_HTTPS
      [] name = "No Embedded Images" -> config.NO_IMAGES
      [] name = "White Background" -> config.BACKGROUND_WHITE
      [] name = "Grayscale Colors Only" -> config.GRAYSCALE_COLORS

ToggledCriteria ==
    {"HTTPS Links Only", "No Embedded Images", "White Background",
     "Grayscale Colors Only"}

\* C5 (as claimed): a toggled criterion whose toggle is disabled returns
\* true, whatever the document holds.
C5_DisabledTogglePasses ==
    (PredDone /\ called \in ToggledCriteria /\ ~Toggle(called)) =>
        (~returned.raised /\ returned.value)

\* C6 (as claimed): on a readable document the page-count criterion passes
\* iff the page count is at most the configured maximum number of pages.
C6_PageCountUsesMaxPages ==
    (PredDone /\ called = "Single Page Limit" /\ OpenError(doc) = None) =>
        /\ ~returned.raised
        /\ returned.value <=> (Len(doc.pages) <= config.MAX_PAGES)

\* C10 (as claimed): on a readable document the font-size criterion passes
\* iff every glyph lies within the min/max font bounds of the run's
\* configuration.
C10_FontBoundsFromConfig ==
    (PredDone /\ called = "Font Size Range" /\ OpenError(doc) = None) =>
        /\ ~returned.raised
        /\ returned.value <=>
              \A size \in GlyphSizes(doc) :
                  config.MIN_FONT <= size /\ size <= config.MAX_FONT

(***************************************************************************)
(* The check command of the command line.                                  *)
(***************************************************************************)

\* a value of --criteria: its text and the whitespace typed around it
Value(text) == [text |-> text, padding |-> 0]

Padded(text) == [text |-> text, padding |-> 1]

\* c.strip()
strip(c) == c.text

\* criteria_names = [c.strip() for c in criteria]
criteria_names(cs) == [k \in 1..Len(cs) |-> strip(cs[k])]

InList(x, seq) == \E k \in 1..Len(seq) : seq[k] = x

\* the criteria named, taken in the order of the request
RECURSIVE filtered_criteria_request_order(_, _)
filtered_criteria_request_order(all, cs) ==
    IF cs = <<>> THEN <<>>
    ELSE LET named(c) == c.name = strip(Head(cs))
         IN  SelectSeq(all, named)
             \o filtered_criteria_request_order(all, Tail(cs))

\* [c for c in all_criteria if c.name in criteria_names]
filtered_criteria(all, cs) ==
    LET names == criteria_names(cs)
        keep(c) == InList(c.name, names)
    IN  SelectSeq(all, keep)

\* total_weight as if the criteria were counted instead of weighed
SumWeights_count(cs) == Len(cs)

\* sum(c.weight for c in all_criteria)
RECURSIVE SumWeights(_)
SumWeights(cs) ==
    IF cs = <<>> THEN 0 ELSE Head(cs).weight + SumWeights(Tail(cs))

\* the body of the loop with the message of the exception dropped
TryCheck_no_message(criterion, outcome) ==
    [result |-> [name |-> criterion.name,
                 description |-> criterion.description,
                 weight |-> criterion.weight,
                 passed |-> ~outcome.raised /\ outcome.value,
                 error |-> None],
     gained |-> IF ~outcome.raised /\ outcome.value
                THEN criterion.weight ELSE 0]

\* the body of the loop with an error text given to a predicate that
\* returned False
TryCheck_error_on_false(criterion, outcome) ==
    [result |-> [name |-> criterion.name,
                 description |-> criterion.description,
                 weight |-> criterion.weight,
                 passed |-> ~outcome.raised /\ outcome.value,
                 error |-> IF outcome.raised THEN outcome.msg
                           ELSE IF outcome.value THEN None
                           ELSE "Check failed"],
     gained |-> IF ~outcome.raised /\ outcome.value
                THEN criterion.weight ELSE 0]

\* the try/except of the loop: the record appended for the criterion and
\* the weight added to passed_weight, given what its check_func did
TryCheck(criterion, outcome) ==
    IF ~outcome.raised
    THEN [result |-> [name |-> criterion.name,
                      description |-> criterion.description,
                      weight |-> criterion.weight,
                      passed |-> outcome.value,
                      error |-> None],
          gained |-> IF outcome.value THEN criterion.weight ELSE 0]
    ELSE [result |-> [name |-> criterion.name,
                      description |-> criterion.description,
                      weight |-> criterion.weight,
                      passed |-> FALSE,
                      error |-> outcome.msg],
          gained |-> 0]

\* the score without the factor 100
Score_ratio(passed, total) ==
    IF total > 0 THEN [num |-> passed, den |-> total]
    ELSE [num |-> 0, den |-> 1]

\* (passed_weight / total_weight) * 100 if total_weight > 0 else 0
Score(passed, total) ==
    IF total > 0 THEN [num |-> passed * 100, den |-> total]
    ELSE [num |-> 0, den |-> 1]

\* sum(1 for r in results if r["passed"])
\* passed_count as the number of results
PassedCount_all(rs) == Len(rs)

RECURSIVE PassedCount(_)
PassedCount(rs) ==
    IF rs = <<>> THEN 0
    ELSE (IF Head(rs).passed THEN 1 ELSE 0) + PassedCount(Tail(rs))

(***************************************************************************)
(* Runs of the command: at most MaxVariations variations and values of     *)
(* --criteria together.                                                    *)
(***************************************************************************)
CriteriaValues ==
    {Value("PDF File Exists"), Value("Font Size Range"),
     Value("Single Page Limit"), Value("NonExistentCriteria"),
     Value("PDF File Exists,Single Page Limit"),
     Padded("HTTPS Links Only")}

Runs(n) ==
    {run \in [v : SubsetsUpTo(Defects \cup Options, n),
              criteria : SeqsUpTo(CriteriaValues, n)] :
        /\ Cardinality(run.v) + Len(run.criteria) <= n
        /\ Compatible(run.v)}

\* the state at the entry of check(), the run drawn with at most n variations
InitRuns(n) ==
    /\ \E run \in Runs(n) :
           /\ options = run.v
           /\ doc = DocOf(run.v)
           /\ passing_score = PassingScoreOf(run.v)
           /\ criteria = run.criteria
    /\ config = DefaultConfig
    /\ known = Dictionary
    /\ pc = "validate_passing_score"
    /\ all_criteria = <<>>
    /\ index = 0
    /\ results = <<>>
    /\ total_weight = 0
    /\ passed_weight = 0
    /\ score = [num |-> 0, den |-> 1]
    /\ passed_count = 0
    /\ exit_code = None
    /\ message = None
    /\ json_output = <<>>
    /\ called = None
    /\ returned = NotCalled
    /\ actual_misspelled = <<>>
    /\ capitalization_errors = <<>>
    /\ min_size = MIN_FONT
    /\ max_size = MAX_FONT

Init == InitRuns(MaxVariations)

\* 0 <= passing_score with no upper limit
ValidPassingScore_no_upper(minimum) == 0 <= minimum

\* 0 <= passing_score <= 100
ValidPassingScore(minimum) == 0 <= minimum /\ minimum <= 100

\* the error printed, the command ending with exit code 0
Reject_exit_zero(error) ==
    /\ pc' = "rejected"
    /\ exit_code' = "0"
    /\ message' = error

\* rprint of an error, then raise typer.Exit(1) (or an exception that
\* leaves the command)
Reject(error) ==
    /\ pc' = "rejected"
    /\ exit_code' = "1"
    /\ message' = error

\* the command goes on to the step `next`
Goto(next) ==
    /\ pc' = next
    /\ UNCHANGED <<exit_code, message>>

\* if not 0 <= passing_score <= 100: raise typer.Exit(1)
ValidatePassingScore ==
    /\ pc = "validate_passing_score"
    /\ IF ~ValidPassingScore(passing_score)
       THEN Reject("Passing score must be between 0 and 100")
       ELSE Goto("validate_pdf_exists")
    /\ UNCHANGED <<envVars, callVars, options, passing_score, criteria, json_output,
                   all_criteria, index, results, total_weight, passed_weight,
                   score, passed_count>>

\* the command without the test of the path
ValidatePdfExists_skipped ==
    /\ pc = "validate_pdf_exists"
    /\ Goto("configure")
    /\ UNCHANGED <<envVars, callVars, options, passing_score, criteria,
                   json_output, all_criteria, index, results, total_weight,
                   passed_weight, score, passed_count>>

\* if not pdf_path.exists(): raise typer.Exit(1)
ValidatePdfExists ==
    /\ pc = "validate_pdf_exists"
    /\ IF ~doc.exists
       THEN Reject("PDF file not found")
       ELSE Goto("configure")
    /\ UNCHANGED <<envVars, callVars, options, passing_score, criteria, json_output,
                   all_criteria, index, results, total_weight, passed_weight,
                   score, passed_count>>

\* the configuration of the run with the criteria list in reverse order
CreateConfig_reversed ==
    /\ pc = "configure"
    /\ IF ~ValidConfiguration(ConfigOf(options))
       THEN /\ Reject("ConfigurationError")
            /\ UNCHANGED <<config, all_criteria>>
       ELSE /\ config' = ConfigOf(options)
            /\ all_criteria' = Reverse(create_criteria_list)
            /\ Goto("filter")
    /\ UNCHANGED <<doc, known, callVars, options, passing_score, criteria, json_output,
                   index, results, total_weight, passed_weight, score,
                   passed_count>>

\* the configuration of the run, refused when it breaks its invariant, and
\* the full criteria list
CreateConfig ==
    /\ pc = "configure"
    /\ IF ~ValidConfiguration(ConfigOf(options))
       THEN /\ Reject("ConfigurationError")
            /\ UNCHANGED <<config, all_criteria>>
       ELSE /\ config' = ConfigOf(options)
            /\ all_criteria' = create_criteria_list
            /\ Goto("filter")
    /\ UNCHANGED <<doc, known, callVars, options, passing_score, criteria, json_output,
                   index, results, total_weight, passed_weight, score,
                   passed_count>>

\* the filter without the test for an empty list
FilterCriteria_no_check ==
    /\ pc = "filter"
    /\ IF criteria # <<>>
       THEN /\ all_criteria' = filtered_criteria(all_criteria, criteria)
            /\ Goto("run")
       ELSE /\ Goto("run")
            /\ UNCHANGED all_criteria
    /\ UNCHANGED <<envVars, callVars, options, passing_score, criteria, json_output,
                   index, results, total_weight, passed_weight, score,
                   passed_count>>

\* if criteria: keep the criteria named; none left is an error
FilterCriteria ==
    /\ pc = "filter"
    /\ IF criteria # <<>>
       THEN IF filtered_criteria(all_criteria, criteria) = <<>>
            THEN /\ Reject("No matching criteria found")
                 /\ UNCHANGED all_criteria
            ELSE /\ all_criteria' = filtered_criteria(all_criteria, criteria)
                 /\ Goto("run")
       ELSE /\ Goto("run")
            /\ UNCHANGED all_criteria
    /\ UNCHANGED <<envVars, callVars, options, passing_score, criteria, json_output,
                   index, results, total_weight, passed_weight, score,
                   passed_count>>

\* the start of the run with total_weight left at 0
StartValidation_no_total ==
    /\ pc = "run"
    /\ results' = <<>>
    /\ total_weight' = 0
    /\ passed_weight' = 0
    /\ index' = 0
    /\ Goto("loop")
    /\ UNCHANGED <<envVars, callVars, options, passing_score, criteria, json_output,
                   all_criteria, score, passed_count>>

\* results = []; total_weight = sum(...); passed_weight = 0
StartValidation ==
    /\ pc = "run"
    /\ results' = <<>>
    /\ total_weight' = SumWeights(all_criteria)
    /\ passed_weight' = 0
    /\ index' = 0
    /\ Goto("loop")
    /\ UNCHANGED <<envVars, callVars, options, passing_score, criteria, json_output,
                   all_criteria, score, passed_count>>

\* one turn of the loop with the record put in front of the list
CheckCriterion_prepends ==
    /\ pc = "loop"
    /\ index < Len(all_criteria)
    /\ \E criterion \in {all_criteria[index + 1]} :
       \E outcome \in {check_func(criterion.name, doc, config, known)} :
       \E step \in {TryCheck(criterion, outcome)} :
           /\ called' = criterion.name
           /\ returned' = outcome
           /\ results' = <<step.result>> \o results
           /\ passed_weight' = passed_weight + step.gained
    /\ index' = index + 1
    /\ UNCHANGED <<pc, envVars, actual_misspelled, capitalization_errors,
                   min_size, max_size, options, passing_score, criteria,
                   json_output, all_criteria, total_weight, score,
                   passed_count, exit_code, message>>

\* one turn of: for criterion in all_criteria.  The check_func of the
\* criterion is called and runs to its end, then its record is appended.
CheckCriterion ==
    /\ pc = "loop"
    /\ index < Len(all_criteria)
    /\ \E criterion \in {all_criteria[index + 1]} :
       \E outcome \in {check_func(criterion.name, doc, config, known)} :
       \E step \in {TryCheck(criterion, outcome)} :
           /\ called' = criterion.name
           /\ returned' = outcome
           /\ results' = Append(results, step.result)
           /\ passed_weight' = passed_weight + step.gained
    /\ index' = index + 1
    /\ UNCHANGED <<pc, envVars, actual_misspelled, capitalization_errors,
                   min_size, max_size, options, passing_score, criteria,
                   json_output, all_criteria, total_weight, score,
                   passed_count, exit_code, message>>

\* the loop is over: score and passed_count
CalculateScore ==
    /\ pc = "loop"
    /\ index = Len(all_criteria)
    /\ score' = Score(passed_weight, total_weight)
    /\ passed_count' = PassedCount(results)
    /\ Goto("output")
    /\ UNCHANGED <<envVars, callVars, options, passing_score, criteria, json_output,
                   all_criteria, index, results, total_weight, passed_weight>>

\* str(pdf_path)
PdfPath == "resume.pdf"

\* round(score, 2), in hundredths: the nearest hundredth, the even one of
\* two equally near
Round2(sc) ==
    LET q == (sc.num * 100) \div sc.den
        r == (sc.num * 100) % sc.den
    IN  IF 2 * r > sc.den THEN q + 1
        ELSE IF 2 * r = sc.den THEN q + (q % 2)
        ELSE q

\* output_data with the field names document, passed_count, total_count
output_data_report_names(sc, count, rs) ==
    [document |-> PdfPath,
     score |-> Round2(sc),
     passed_count |-> count,
     total_count |-> Len(rs),
     results |-> rs]

\* output_data of the json output
output_data(sc, count, rs) ==
    [pdf_path |-> PdfPath,
     score |-> Round2(sc),
     passed |-> count,
     total |-> Len(rs),
     results |-> rs]

\* if output == "json": print(json.dumps(output_data)); the summary and the
\* table are text for the reader
OutputResults ==
    /\ pc = "output"
    /\ IF "--output=json" \in options
       THEN json_output' =
                Append(json_output, output_data(score, passed_count, results))
       ELSE UNCHANGED json_output
    /\ Goto("verdict")
    /\ UNCHANGED <<envVars, callVars, options, passing_score, criteria,
                   all_criteria, index, results, total_weight, passed_weight,
                   score, passed_count>>

\* score < passing_score with the threshold itself failing
BelowPassingScore_inclusive(sc, minimum) == sc.num <= minimum * sc.den

\* score < passing_score
BelowPassingScore(sc, minimum) == sc.num < minimum * sc.den

\* if score < passing_score: raise typer.Exit(1)
Exit ==
    /\ pc = "verdict"
    /\ exit_code' = IF BelowPassingScore(score, passing_score)
                    THEN "1" ELSE "0"
    /\ pc' = "finished"
    /\ UNCHANGED <<envVars, callVars, options, passing_score, criteria, json_output,
                   all_criteria, index, results, total_weight, passed_weight,
                   score, passed_count, message>>

Next ==
    \/ ValidatePassingScore
    \/ ValidatePdfExists
    \/ CreateConfig
    \/ FilterCriteria
    \/ StartValidation
    \/ CheckCriterion
    \/ CalculateScore
    \/ OutputResults
    \/ Exit

Spec == Init /\ [][Next]_vars

\* the command is one synchronous function: a step that can be taken is
\* taken
MaxLiveVariations == 1

LiveInit == InitRuns(MaxLiveVariations)

LiveSpec == LiveInit /\ [][Next]_vars /\ WF_vars(Next)

\* the loop has started
InLoop == pc \in {"loop", "output", "verdict", "finished"}

\* the loop has ended
Evaluated == pc \in {"output", "verdict", "finished"}

\* what the check_func of the criterion at position i does in this run
OutcomeAt(i) == check_func(all_criteria[i].name, doc, config, known)

\* C1: an exception raised by the predicate of a criterion is recorded as
\* that criterion failing with the exception's message, every later
\* criterion is still evaluated, and what is recorded for any criterion
\* depends on its own predicate only.
C1_ExceptionIsolation ==
    InLoop =>
        /\ Len(results) = index
        /\ index <= Len(all_criteria)
        /\ Evaluated => Len(results) = Len(all_criteria)
        /\ \A i \in 1..Len(results) :
               /\ results[i].name = all_criteria[i].name
               /\ IF OutcomeAt(i).raised
                  THEN /\ results[i].passed = FALSE
                       /\ results[i].error = OutcomeAt(i).msg
                  ELSE /\ results[i].passed = OutcomeAt(i).value
                       /\ results[i].error = None

\* C1 witness: a finished run in which a predicate raised and a later
\* criterion passed.
C1_Witness ==
    /\ pc = "finished"
    /\ \E i \in 1..Len(results) : \E j \in (i + 1)..Len(results) :
           /\ OutcomeAt(i).raised
           /\ results[i].error # None
           /\ results[j].passed

\* the weights of the records of rs, the passed ones only if onlyPassed
RECURSIVE WeightSum(_, _)
WeightSum(rs, onlyPassed) ==
    IF rs = <<>> THEN 0
    ELSE (IF onlyPassed => Head(rs).passed THEN Head(rs).weight ELSE 0)
         + WeightSum(Tail(rs), onlyPassed)

\* C2: the score is 100 times the weight of the passed criteria over the
\* weight of all evaluated criteria, and 0 when that weight is 0.
C2_ScoreFormula ==
    Evaluated =>
        LET passed == WeightSum(results, TRUE)
            all == WeightSum(results, FALSE)
        IN  /\ score.den > 0
            /\ IF all = 0 THEN score.num = 0
               ELSE score.num * all = 100 * passed * score.den

\* C2 witness: a finished run where some criteria passed and some did not.
C2_Witness ==
    /\ pc = "finished"
    /\ \E i \in 1..Len(results) : results[i].passed
    /\ \E i \in 1..Len(results) : ~results[i].passed
    /\ score.num > 0

\* C3: passed_weight never exceeds total_weight at any point of the loop,
\* and the score lies between 0 and 100.
C3_ScoreBounds ==
    /\ InLoop => 0 <= passed_weight /\ passed_weight <= total_weight
    /\ Evaluated =>
           /\ score.den > 0
           /\ 0 <= score.num
           /\ score.num <= 100 * score.den

\* C3 witness: a finished run of several criteria that all passed, the
\* score being exactly 100.
C3_Witness ==
    /\ pc = "finished"
    /\ Len(results) > 1
    /\ passed_weight = total_weight
    /\ score.num = 100 * score.den

\* the names of a criteria list
NamesOf(cs) == [k \in 1..Len(cs) |-> cs[k].name]

\* C11: whatever the configuration, create_criteria_list returns exactly
\* eleven criteria with pairwise distinct names in the fixed order
\* existence, page count, file size, font size, https links, no images,
\* white background, grayscale, spelling, structure, integrity.
C11_RegistryOrder ==
    pc = "filter" =>
        /\ Len(all_criteria) = 11
        /\ NamesOf(all_criteria) =
               <<"PDF File Exists", "Single Page Limit",
                 "File Size Constraint", "Font Size Range",
                 "HTTPS Links Only", "No Embedded Images",
                 "White Background", "Grayscale Colors Only",
                 "Spell Check and Capitalization",
                 "PDF Structure and Metadata", "PDF Integrity">>
        /\ \A i \in 1..Len(all_criteria) : \A j \in 1..Len(all_criteria) :
               all_criteria[i].name = all_criteria[j].name => i = j

\* C11 witness: the criteria list of a run whose configuration is not the
\* default one.
C11_Witness ==
    /\ pc = "filter"
    /\ config # DefaultConfig
    /\ Len(all_criteria) = 11

\* the filter has been applied
Filtered == pc \in {"run", "loop", "output", "verdict", "finished"}

\* the names requested with --criteria
Requested == {strip(criteria[k]) : k \in 1..Len(criteria)}

\* the position of a criterion in the registry
RegistryIndex(name) ==
    CHOOSE k \in 1..Len(create_criteria_list) :
        create_criteria_list[k].name = name

\* C12: with a name filter, the evaluated criteria are exactly the registry
\* criteria whose name is requested, in the registry's relative order,
\* whatever the order of the request.
C12_FilterKeepsRegistryOrder ==
    (Filtered /\ criteria # <<>>) =>
        /\ {all_criteria[k].name : k \in 1..Len(all_criteria)}
               = CriterionNames \cap Requested
        /\ \A k \in 1..Len(all_criteria) :
               all_criteria[k]
                   = create_criteria_list[RegistryIndex(all_criteria[k].name)]
        /\ \A i \in 1..Len(all_criteria) : \A j \in 1..Len(all_criteria) :
               i < j => RegistryIndex(all_criteria[i].name)
                            < RegistryIndex(all_criteria[j].name)

\* C12 witness: font size requested before page count; page count is
\* evaluated first, as in the registry.
C12_Witness ==
    /\ Filtered
    /\ criteria = <<Value("Font Size Range"), Value("Single Page Limit")>>
    /\ NamesOf(all_criteria) = <<"Single Page Limit", "Font Size Range">>

\* a name filter is given and none of its names is in the registry
Unmatched == criteria # <<>> /\ Requested \cap CriterionNames = {}

\* the run gets as far as the filter: its passing score, its PDF path and
\* its configuration are accepted
ReachesFilter ==
    /\ ValidPassingScore(passing_score)
    /\ doc.exists
    /\ ValidConfiguration(ConfigOf(options))

\* the command has ended
Ended == pc \in {"rejected", "finished"}

\* C13 (as claimed): filtering to a name that is not in the registry gives
\* a run that completes with an empty result list and a score of 0.
C13_UnmatchedFilterScoresZero ==
    (Unmatched /\ ReachesFilter /\ Ended) =>
        /\ pc = "finished"
        /\ results = <<>>
        /\ score.num = 0

\* C13 (amended): filtering to names none of which is in the registry
\* aborts the run at the filter; every run that completes has evaluated at
\* least one criterion and has a positive total weight.
C13_UnmatchedFilterAborts ==
    /\ Unmatched => ~Filtered
    /\ (Unmatched /\ ReachesFilter /\ Ended) => pc = "rejected"
    /\ Evaluated =>
           /\ Len(results) >= 1
           /\ total_weight > 0

\* C13 witness: a run aborted at the filter, the registry built and no
\* result recorded.
C13_Witness ==
    /\ Unmatched
    /\ ReachesFilter
    /\ pc = "rejected"
    /\ all_criteria = create_criteria_list
    /\ results = <<>>

\* C14: a run whose name filter matches no registry criterion ends with
\* exit code 1 and the error 'No matching criteria found', before any
\* predicate is evaluated and without a score.
C14_UnmatchedFilterExitsOne ==
    (Unmatched /\ ReachesFilter) =>
        /\ pc \in {"validate_passing_score", "validate_pdf_exists",
                   "configure", "filter", "rejected"}
        /\ index = 0
        /\ results = <<>>
        /\ passed_weight = 0
        /\ score = [num |-> 0, den |-> 1]
        /\ passed_count = 0
        /\ IF pc = "rejected"
           THEN /\ exit_code = "1"
                /\ message = "No matching criteria found"
           ELSE /\ exit_code = None
                /\ message = None

\* C14 witness: --criteria NonExistentCriteria on an existing PDF, ended.
C14_Witness ==
    /\ criteria = <<Value("NonExistentCriteria")>>
    /\ doc.exists
    /\ pc = "rejected"
    /\ exit_code = "1"
    /\ message = "No matching criteria found"

\* C15: a run that was evaluated ends with exit code 0 iff its score is at
\* least the passing score and with exit code 1 iff its score is below it;
\* a run filtered to 'PDF File Exists' on an existing file passes under the
\* default passing score of 80.
C15_VerdictIsThreshold ==
    pc = "finished" =>
        /\ exit_code \in {"0", "1"}
        /\ exit_code = "0" <=> score.num >= passing_score * score.den
        /\ exit_code = "1" <=> score.num < passing_score * score.den
        /\ (/\ NamesOf(all_criteria) = <<"PDF File Exists">>
            /\ doc.is_file
            /\ passing_score = 80) => exit_code = "0"

\* C15 witness: a run whose score is exactly its passing score, and passes.
C15_Witness ==
    /\ pc = "finished"
    /\ score.num = passing_score * score.den
    /\ passing_score > 0
    /\ exit_code = "0"

\* C16: a passing score outside [0, 100] ends the run with exit code 1
\* before the configuration is built and before any predicate is
\* evaluated; there is no result and no score.
C16_PassingScoreRange ==
    (passing_score < 0 \/ passing_score > 100) =>
        /\ pc \in {"validate_passing_score", "rejected"}
        /\ config = DefaultConfig
        /\ all_criteria = <<>>
        /\ index = 0
        /\ results = <<>>
        /\ score = [num |-> 0, den |-> 1]
        /\ passed_count = 0
        /\ IF pc = "rejected"
           THEN /\ exit_code = "1"
                /\ message = "Passing score must be between 0 and 100"
           ELSE exit_code = None

\* C16 witness: --passing-score 150 on an existing PDF, ended.
C16_Witness ==
    /\ passing_score = 150
    /\ doc.exists
    /\ pc = "rejected"
    /\ exit_code = "1"

\* the font bounds the options of the run ask for
AskedMinFont == ConfigOf(options).MIN_FONT

AskedMaxFont == ConfigOf(options).MAX_FONT

\* C17: a configuration whose min font size is at least its max font size
\* is refused when it is constructed; the run fails before any predicate is
\* evaluated, and no run evaluates criteria with min font >= max font.
C17_FontBoundsOrdered ==
    /\ AskedMinFont >= AskedMaxFont =>
           /\ pc \in {"validate_passing_score", "validate_pdf_exists",
                      "configure", "rejected"}
           /\ all_criteria = <<>>
           /\ index = 0
           /\ results = <<>>
           /\ pc = "rejected" => exit_code = "1"
    /\ InLoop => config.MIN_FONT < config.MAX_FONT

\* C17 witness: --min-font 21 with the default max font of 21 on an
\* existing PDF, refused at construction.
C17_Witness ==
    /\ "--min-font=21" \in options
    /\ AskedMinFont = AskedMaxFont
    /\ pc = "rejected"
    /\ message = "ConfigurationError"

(***************************************************************************)
(* Calls of test_pdf_spell_check on texts whose words are followed by a    *)
(* space, a digit or an underscore, with no custom words.                  *)
(***************************************************************************)
MaxPieces == 2

W_https == <<"h","t","t","p","s">>
W_github == <<"g","i","t","h","u","b">>
W_mysql == <<"m","y","s","q","l">>

TokenPool == {W_the, W_teh, W_https, W_github, W_mysql}

Separators == {" ", "1", "_"}

RECURSIVE JoinPieces(_)
\* the text made of the words, each followed by its separator
JoinPieces(pieces) ==
    IF pieces = <<>> THEN <<>>
    ELSE Head(pieces)[1] \o <<Head(pieces)[2]>> \o JoinPieces(Tail(pieces))

TokenInit ==
    /\ \E pieces \in SeqsUpTo(TokenPool \X Separators, MaxPieces) :
           /\ doc = [ValidDoc EXCEPT
                         !.pages = <<[ValidPage EXCEPT
                                          !.text = JoinPieces(pieces)]>>]
           /\ known \in SUBSET {pieces[k][1] : k \in 1..Len(pieces)}
    /\ config = DefaultConfig
    /\ pc = "call"
    /\ called = "test_pdf_spell_check"
    /\ returned = NotCalled
    /\ actual_misspelled = <<>>
    /\ capitalization_errors = <<>>
    /\ min_size = MIN_FONT
    /\ max_size = MAX_FONT
    /\ NoCommand

SpecTokens == TokenInit /\ [][CallSpellCheck]_vars

\* the full extracted text of the document
FullText == Concat([p \in 1..Len(doc.pages) |-> doc.pages[p].text])

RECURSIVE LetterRunsFrom(_, _)
\* the maximal runs of ASCII letters of text, from position i on
LetterRunsFrom(text, i) ==
    IF i > Len(text) THEN <<>>
    ELSE IF IsLetter(text[i])
         THEN <<SubSeq(text, i, RunEnd(text, i))>>
              \o LetterRunsFrom(text, RunEnd(text, i) + 1)
         ELSE LetterRunsFrom(text, i + 1)

\* C18 (as claimed): the candidate tokens are exactly the maximal runs of
\* ASCII letters of the full text, in order; a run next to a digit or an
\* underscore is a candidate too and is classified like any other, so an
\* unknown one of length >= 3 that no filter ignores is a misspelling.
C18_TokensAreLetterRuns ==
    SpellDone =>
        /\ original_words = LetterRunsFrom(FullText, 1)
        /\ \A run \in Range(LetterRunsFrom(FullText, 1)) :
               (/\ Len(run) >= 3
                /\ run \notin known
                /\ run \notin allowed_words(config.CUSTOM_WORDS)
                /\ RigidMismatches(run) = {}
                /\ ~\E tech \in TechTerms : contains(lower(run), tech))
                   => run \in Range(actual_misspelled)

\* the tokens the claimed residual filters ignore when equal to them
UrlWords ==
    {W_https, <<"h","t","t","p">>, <<"w","w","w">>, <<"c","o","m">>,
     <<"o","r","g">>, <<"n","e","t">>}

\* the words the claimed residual filters ignore when contained in a token
SiteWords ==
    {W_github, <<"l","i","n","k","e","d","i","n">>, <<"g","m","a","i","l">>,
     <<"y","a","h","o","o">>, <<"h","o","t","m","a","i","l">>}

ClaimedIgnored(word) ==
    \/ lower(word) \in UrlWords
    \/ \E site \in SiteWords : contains(lower(word), site)
    \/ \E tech \in {<<"j","s">>, <<"s","q","l">>, <<"x","m","l">>,
                     <<"j","s","o","n">>} : contains(lower(word), tech)

\* C19 (as claimed): a token of length >= 3 that neither the allowed set
\* nor the oracle accepts and that is no capitalization error is ignored
\* when it is one of https, http, www, com, org, net or contains one of
\* github, linkedin, gmail, yahoo, hotmail, js, sql, xml, json (case
\* ignored), and is reported as a misspelling otherwise.
C19_ResidualFilters ==
    SpellDone =>
        \A word \in Range(original_words) :
            (/\ Len(word) >= 3
             /\ word \notin allowed_words(config.CUSTOM_WORDS)
             /\ word \notin known
             /\ CapErrorsFor(word) = 0)
                => (word \in Range(actual_misspelled)
                        <=> ~ClaimedIgnored(word))

\* a readable one-page document with a white background, grayscale
\* colors, 12pt glyphs only, known words only, author and title set, no
\* link and no image, within the default size limit
PerfectDocument ==
    /\ doc.exists /\ doc.is_file /\ doc.readable
    /\ doc.size_kb <= MAX_FILE_SIZE_KB
    /\ doc.metadata.present
    /\ doc.metadata.Author # NoValue /\ NonBlank(doc.metadata.Author)
    /\ doc.metadata.Title # NoValue /\ NonBlank(doc.metadata.Title)
    /\ Len(doc.pages) = 1
    /\ \A p \in 1..Len(doc.pages) :
           /\ NonBlank(doc.pages[p].text)
           /\ Range(doc.pages[p].glyphs) = {12}
           /\ doc.pages[p].links = <<>>
           /\ ~doc.pages[p].image
           /\ doc.pages[p].pixels[1] = White
           /\ \A k \in 1..Len(doc.pages[p].pixels) :
                  doc.pages[p].pixels[k] \in {White, Black}
    /\ \A word \in Range(original_words) : Len(word) >= 3 => word \in known

CallCheckFuncAgain ==
    /\ pc = "done"
    /\ called \in CriterionNames
    /\ returned' = check_func(called, doc, config, known)
    /\ pc' = "again"
    /\ UNCHANGED <<envVars, cmdVars, called, actual_misspelled,
                   capitalization_errors, min_size, max_size>>

NextTwice == CallCheckFunc \/ CallCheckFuncAgain

SpecTwice == PredInit /\ [][NextTwice]_vars

ResultFieldsOf(report) ==
    {DOMAIN report.results[i] : i \in 1..Len(report.results)}

\* C22 (as claimed): a JSON report has exactly the top-level fields
\* document, score, passed_count, total_count and results, and every
\* element of results has exactly the fields name, description, weight,
\* passed and error.
C22_ReportFieldNames ==
    \A k \in 1..Len(json_output) :
        /\ DOMAIN json_output[k] =
               {"document", "score", "passed_count", "total_count", "results"}
        /\ ResultFieldsOf(json_output[k]) \subseteq
               {{"name", "description", "weight", "passed", "error"}}

\* C22 (amended): a JSON report has exactly the top-level fields pdf_path,
\* score, passed, total and results; passed is the number of passed
\* results and total the number of results; every element of results has
\* exactly the fields name, description, weight, passed and error.
C22_ReportFieldNamesOfCli ==
    \A k \in 1..Len(json_output) :
        /\ DOMAIN json_output[k] =
               {"pdf_path", "score", "passed", "total", "results"}
        /\ ResultFieldsOf(json_output[k]) \subseteq
               {{"name", "description", "weight", "passed", "error"}}
        /\ json_output[k].results = results
        /\ json_output[k].total = Len(results)
        /\ json_output[k].passed =
               Cardinality({i \in 1..Len(results) : results[i].passed})

\* C22 witness: a JSON report printed for a run in which one result has an
\* error and another has none.
C22_Witness ==
    /\ Len(json_output) = 1
    /\ \E i \in 1..Len(json_output[1].results) :
           json_output[1].results[i].error # None
    /\ \E i \in 1..Len(json_output[1].results) :
           json_output[1].results[i].error = None

\* C23: a run on a path at which no file exists ends with exit code 1 and
\* the error 'PDF file not found' before the criteria list is built and
\* before any predicate is evaluated; no result is recorded.
C23_MissingFileExitsOne ==
    (~doc.exists /\ 0 <= passing_score /\ passing_score <= 100) =>
        /\ pc \in {"validate_passing_score", "validate_pdf_exists",
                   "rejected"}
        /\ config = DefaultConfig
        /\ all_criteria = <<>>
        /\ index = 0
        /\ results = <<>>
        /\ json_output = <<>>
        /\ IF pc = "rejected"
           THEN /\ exit_code = "1"
                /\ message = "PDF file not found"
           ELSE /\ exit_code = None
                /\ message = None

\* C23 witness: a run on a missing path, ended, whatever else was asked.
C23_Witness ==
    /\ ~doc.exists
    /\ pc = "rejected"
    /\ message = "PDF file not found"
    /\ criteria # <<>>

\* the results recorded so far are those of the first criteria of the
\* list, in its order
ResultsFollowList ==
    /\ Len(results) <= Len(all_criteria)
    /\ NamesOf(results) = NamesOf(SubSeq(all_criteria, 1, Len(results)))

\* C24: criteria are evaluated one after the other in list order: a
\* predicate is started only when every criterion before it has its result,
\* each started predicate adds exactly one result, every criterion of the
\* list eventually has its result, and the final result list has the
\* length and the name order of the evaluated list.
C24_SequentialEvaluation ==
    /\ [](InLoop => ResultsFollowList)
    /\ [][called' # called =>
              /\ Len(results) < Len(all_criteria)
              /\ called' = all_criteria[Len(results) + 1].name
              /\ Len(results') = Len(results) + 1
              /\ SubSeq(results', 1, Len(results)) = results
              /\ results'[Len(results')].name = called']_vars
    /\ (pc = "loop") ~>
           (Evaluated /\ NamesOf(results) = NamesOf(all_criteria))

\* C24 witness: a run of several criteria, ended, with a result for each.
C24_Witness ==
    /\ pc = "finished"
    /\ Len(all_criteria) = 11
    /\ Len(results) = 11
    /\ called = all_criteria[11].name

(***************************************************************************)
(* The scan of the custom words for a capitalization error.                *)
(***************************************************************************)
\* the first custom word, in list order, that mandates another capitalization
\* of `word`
FirstRigidMismatch(word) ==
    CHOOSE k \in RigidMismatches(word) :
        \A j \in RigidMismatches(word) : k <= j

\* `word` is an all-lowercase custom word or its capitalized form
CaseFlexible(word) ==
    \E k \in 1..Len(config.CUSTOM_WORDS) :
        /\ islower(config.CUSTOM_WORDS[k])
        /\ word \in {config.CUSTOM_WORDS[k], capitalize(config.CUSTOM_WORDS[k])}

\* no custom word placed before the first one that mandates another
\* capitalization of `word` is `word` itself
NoEarlierExactWord(word) ==
    \A k \in 1..(FirstRigidMismatch(word) - 1) :
        config.CUSTOM_WORDS[k] # word

\* C25 (as claimed): every token of length >= 3 that the oracle does not know,
\* that no all-lowercase custom word allows, and that equals a custom word
\* containing an uppercase letter case-insensitively but not exactly yields,
\* for each of its occurrences, a capitalization error naming the first such
\* custom word of the list, and no misspelling entry, also when the token is
\* itself a later custom word.
C25_FirstRigidWordWins ==
    SpellDone =>
        \A word \in Range(original_words) :
            (/\ Len(word) >= 3
             /\ word \notin known
             /\ ~CaseFlexible(word)
             /\ RigidMismatches(word) # {}
             /\ NoEarlierExactWord(word)) =>
                /\ Count(capitalization_errors, LAMBDA e :
                         /\ e.found = word
                         /\ e.should =
                              config.CUSTOM_WORDS[FirstRigidMismatch(word)])
                       = OccurrencesOf(word)
                /\ word \notin Range(actual_misspelled)

(***************************************************************************)
(* The two lists the spelling check reports.                               *)
(***************************************************************************)
\* the position of the first occurrence of `word` in `seq`
FirstIndex(seq, word) ==
    CHOOSE i \in 1..Len(seq) :
        seq[i] = word /\ \A j \in 1..(i - 1) : seq[j] # word

\* an occurrence of `word` is a capitalization error: it is not accepted as
\* an allowed word nor by the oracle, and a custom word mandates another
\* capitalization of it
Offending(word) ==
    /\ Len(word) >= 3
    /\ word \notin known
    /\ word \notin Range(config.CUSTOM_WORDS)
    /\ ~CaseFlexible(word)
    /\ RigidMismatches(word) # {}

\* C26: the misspelling list holds no token twice (tokens that differ in
\* case are different tokens), holds only tokens of the text, in the order of
\* their first occurrence in the text; each offending occurrence of a token
\* gives one capitalization error and no other token gives one; the
\* predicate returns True exactly when both lists are empty.
C26_DeduplicatedMisspellings ==
    SpellDone =>
        /\ \A i, j \in 1..Len(actual_misspelled) :
               i < j =>
                   /\ actual_misspelled[i] # actual_misspelled[j]
                   /\ FirstIndex(original_words, actual_misspelled[i])
                        < FirstIndex(original_words, actual_misspelled[j])
        /\ Range(actual_misspelled) \subseteq Range(original_words)
        /\ \A word \in Range(original_words) :
               CapErrorsFor(word) =
                   IF Offending(word) THEN OccurrencesOf(word) ELSE 0
        /\ Len(capitalization_errors)
              = Count(original_words, LAMBDA w : Offending(w))
        /\ (returned = Returns(TRUE)) <=>
               (actual_misspelled = <<>> /\ capitalization_errors = <<>>)

\* C26 witness: a misspelled token occurs twice in the text and once in the
\* reported list.
C26_Witness ==
    /\ SpellDone
    /\ \E word \in Range(actual_misspelled) : OccurrencesOf(word) = 2
    /\ returned = Returns(FALSE)

\* C26 witness of the other list: a token occurs twice with a capitalization
\* a custom word forbids, and two capitalization errors are recorded.
C26_WitnessCapitalization ==
    /\ SpellDone
    /\ \E word \in Range(original_words) :
           Offending(word) /\ OccurrencesOf(word) = 2 /\ CapErrorsFor(word) = 2

(***************************************************************************)
(* One value of --criteria that joins two names with a comma.              *)
(***************************************************************************)
CommaValue == Value("PDF File Exists,Single Page Limit")

CommaNames == <<"PDF File Exists", "Single Page Limit">>

\* C27 (as claimed): a run whose only --criteria value is 'A,B', A and B
\* being names of the registry, evaluates exactly the criteria A and B.
C27_CommaSeparatedCriteria ==
    (criteria = <<CommaValue>> /\ ReachesFilter /\ Ended) =>
        /\ pc = "finished"
        /\ NamesOf(results) = CommaNames

(***************************************************************************)
(* The accounts of the loop.                                               *)
(***************************************************************************)
\* the positions of the results with passed = true
PassedResults == {i \in 1..Len(results) : results[i].passed}

\* C28: after every iteration the number of results is the number of
\* criteria processed and passed_weight is the sum of the weights of the
\* results with passed = true; once the loop is over, passed_count is the
\* number of results with passed = true and is at most the number of results.
C28_LoopAccounting ==
    /\ InLoop =>
           /\ Len(results) = index
           /\ passed_weight = WeightSum(results, TRUE)
    /\ Evaluated =>
           /\ passed_count = Cardinality(PassedResults)
           /\ passed_count <= Len(results)
           /\ Len(results) = Len(all_criteria)

\* C28 witness: a finished run of the whole registry where some criteria
\* passed and some did not.
C28_Witness ==
    /\ pc = "finished"
    /\ Len(results) = 11
    /\ passed_count > 0
    /\ passed_count < Len(results)
    /\ passed_weight > 0

\* C29: in every result, error is not null only if passed is false, and
\* error is not null exactly when the check_func of the criterion raised: a
\* check_func that returned, True or False, gives error = null.
C29_ResultWellFormed ==
    InLoop =>
        \A i \in 1..Len(results) :
            /\ results[i].error # None => ~results[i].passed
            /\ results[i].error # None <=> OutcomeAt(i).raised

\* C29 witness: a finished run with a result whose check_func raised and a
\* result whose check_func returned False.
C29_Witness ==
    /\ pc = "finished"
    /\ \E i \in 1..Len(results) :
           OutcomeAt(i).raised /\ results[i].error # None
    /\ \E i \in 1..Len(results) :
           /\ ~OutcomeAt(i).raised
           /\ ~results[i].passed
           /\ results[i].error = None

\* the score is about to be computed, or has been
ScoreReached == (pc = "loop" /\ index = Len(all_criteria)) \/ Evaluated

\* C30: every weight of the registry is positive, and whenever the score
\* computation is reached the list of evaluated criteria is not empty and
\* total_weight > 0, so that the score is never the 0 given to a zero
\* total_weight.
C30_DenominatorPositive ==
    /\ \A k \in 1..Len(create_criteria_list) :
           create_criteria_list[k].weight > 0
    /\ ScoreReached =>
           /\ all_criteria # <<>>
           /\ total_weight > 0
           /\ total_weight = WeightSum(results, FALSE)
           /\ Evaluated => score.den = total_weight

\* C30 witness: a run filtered to one criterion reaches the score
\* computation with the weight of that criterion as total_weight.
C30_Witness ==
    /\ pc = "output"
    /\ criteria # <<>>
    /\ Len(all_criteria) = 1
    /\ total_weight = all_criteria[1].weight

====
